---------------------------- MODULE Spec2Model ----------------------------
(***************************************************************************)
(* Device bootstrap and health telemetry of the Jetstream backends.        *)
(*                                                                         *)
(* Vulkan handle (src/src/backend/devices/vulkan/base.cc): construction    *)
(* step by step, the telemetry provider chain, the telemetry worker        *)
(* thread, and the destructor.                                             *)
(* WebGPU handle (src/src/backend/devices/webgpu/base.cc): the cooperative *)
(* self-rescheduling telemetry callback.                                   *)
(* Pure classification rules (src/include/jetstream/backend/telemetry.hh). *)
(***************************************************************************)
EXTENDS Integers, Sequences, FiniteSets, TLC

\* ------------------------------------------------------------------ bounds

\* Threads the scheduler may create during one handle's life.
MaxThreads == 2
\* Largest configured device ordinal explored.
MaxDeviceId == 1
\* Cooperative callbacks fired after the WebGPU handle was destroyed.
MaxLateFires == 2
\* Hottest temperature, in degrees Celsius, a helper is called with.
MaxCelsius == 100
\* Largest performance state a helper is called with.
MaxPState == 15
\* Largest power draw and power limit of the small readings a helper is called with.
MaxMilliwatts == 12

\* -------------------------------------------------------- program constants

NvidiaVendorId == 4318
\* U32 values are scaled to 16 bits (TLC's integers cannot hold a 64-bit product):
\* static_cast<U32> keeps the low WordModulus part of the quotient.
WordModulus == 65536
DefaultThresholdPercent == 30
HotCelsius == 95
WarmCelsius == 85
ElevatedCelsius == 75
LowPowerPState == 8

\* ---------------------------------------------------------------- variables

VARIABLES
    \* the machine the handle is built on (fixed during a run)
    hasNvml,                      \* JST_BACKEND_HAS_NVML of the build
    availableInstanceExtensions,  \* vkEnumerateInstanceExtensionProperties
    availableLayers,              \* vkEnumerateInstanceLayerProperties
    physicalDevices,              \* vkEnumeratePhysicalDevices, in order (none if it fails)
    nvmlInitOk,                   \* nvmlInit_v2 returns NVML_SUCCESS
    nvmlHandleOk,                 \* nvmlDeviceGetHandleByIndex returns NVML_SUCCESS
    toolingFnResolves,            \* vkGetInstanceProcAddr finds the tooling entry point
    callerConfig,                 \* the Config the caller passes to the constructor
    \* Vulkan handle
    config,                       \* Vulkan::config
    pc,                           \* position of the owning thread
    supportedInstanceExtensions,
    supportedDeviceExtensions,
    physicalDevice,               \* index into physicalDevices, 0 = unset
    cache,                        \* Vulkan::cache
    telemetryRuntime,             \* Vulkan::telemetryRuntime
    thread,                       \* worker threads: id -> position
    isAvailable,                  \* Vulkan::_isAvailable
    live,                         \* native objects currently held
    acquired,                     \* native objects in order of acquisition
    released,                     \* native objects in order of release
    nvml,                         \* vendor library: inits and shutdowns
    warnings,                     \* JST_WARN lines emitted, per subject
    teardown,                     \* destructor: release steps already done
    calls,                        \* the last two scheduler calls that returned
    \* WebGPU handle
    wpc,                          \* "unbuilt", "alive", "destroyed"
    telemetryActive,
    wcache,                       \* WebGPU::cache dynamic fields
    warningLogged,                \* lowPowerWarningLogged, thermalWarningLogged
    pending,                      \* callbacks queued on the host loop
    wwarnings,                    \* JST_WARN lines emitted, per hint class
    lateFire,                     \* what the last callback fired after teardown did
    \* telemetry helpers called on their own
    helperArgs,                   \* the helper called and its arguments
    helperResult                  \* what it returned, <<>> before the call

worldVars == <<hasNvml, availableInstanceExtensions, availableLayers, physicalDevices,
               nvmlInitOk, nvmlHandleOk, toolingFnResolves, callerConfig>>
vkVars == <<config, pc, supportedInstanceExtensions, supportedDeviceExtensions,
            physicalDevice, cache, telemetryRuntime, thread, isAvailable,
            live, acquired, released, nvml, warnings, teardown, calls>>
webVars == <<wpc, telemetryActive, wcache, warningLogged, pending, wwarnings, lateFire>>
helperVars == <<helperArgs, helperResult>>
vars == <<worldVars, vkVars, webVars, helperVars>>

\* ------------------------------------------------- pure classification rules

ThermalBucketFromCelsius_strict(temperatureC) ==
    IF temperatureC > HotCelsius THEN 3
    ELSE IF temperatureC > WarmCelsius THEN 2
    ELSE IF temperatureC > ElevatedCelsius THEN 1
    ELSE 0

ThermalBucketFromCelsius(temperatureC) ==
    IF temperatureC >= HotCelsius THEN 3
    ELSE IF temperatureC >= WarmCelsius THEN 2
    ELSE IF temperatureC >= ElevatedCelsius THEN 1
    ELSE 0

IsLowPowerFromPState_above(pState) == pState > LowPowerPState

IsLowPowerFromPState(pState) == pState >= LowPowerPState

\* (currentMilliwatts * 100ull) / budgetMilliwatts is a quotient of twice the word
\* width, then static_cast<U32> keeps its low word.
IsLowPowerFromPowerBudget(currentMilliwatts, budgetMilliwatts, utilizationThresholdPercent) ==
    IF budgetMilliwatts = 0 THEN FALSE
    ELSE LET utilizationPercent ==
                 ((currentMilliwatts * 100) \div budgetMilliwatts) % WordModulus
         IN  utilizationPercent < utilizationThresholdPercent


\* ------------------------------------------------------- capability names

PlatformSurfaceExtensions == {"VK_KHR_xcb_surface"}

getRequiredInstanceExtensions(cfg) ==
    (IF ~cfg.headless THEN {"VK_KHR_surface"} \cup PlatformSurfaceExtensions ELSE {})
    \cup (IF cfg.validationEnabled THEN {"VK_EXT_debug_report"} ELSE {})

getOptionalInstanceExtensions ==
    {"VK_KHR_portability_enumeration", "VK_EXT_tooling_info"}

getRequiredValidationLayers == {"VK_LAYER_KHRONOS_validation"}

getRequiredDeviceExtensions(cfg) ==
    IF ~cfg.headless THEN {"VK_KHR_swapchain"} ELSE {}

getOptionalDeviceExtensions ==
    {"VK_KHR_external_memory_fd", "VK_EXT_external_memory_host",
     "VK_KHR_portability_subset"}

\* Support checks that report everything asked for as supported.
checkInstanceExtensionSupport_all(extensions) == extensions

checkValidationLayerSupport_all(layers) == layers

checkDeviceExtensionSupport_all(device, extensions) == extensions

\* enumerate-available /\ requested
checkInstanceExtensionSupport(extensions) == extensions \cap availableInstanceExtensions

checkValidationLayerSupport(layers) == layers \cap availableLayers

checkDeviceExtensionSupport(device, extensions) == extensions \cap device.extensions

\* ------------------------------------------------------------ native objects

\* Objects owned by the logical device, and objects owned by the instance.
DeviceObjects == {"descriptorPool", "stagingBuffer", "stagingBufferMemory",
                  "stagingBufferMappedMemory", "defaultCommandPool",
                  "defaultCommandBuffer", "defaultFence"}

InstanceObjects == {"debugReportCallback", "device"}

NativeObjects == {"instance"} \cup InstanceObjects \cup DeviceObjects

\* ------------------------------------------------------- telemetry provider

QueryClasses == {"nvml_power_state", "nvml_temperature", "nvml_power_budget",
                 "tooling_count", "tooling_properties"}

\* What a JST_WARN line of the handle is about: a query class that failed, an
\* optional extension that is missing, the validation layers that are missing.
WarningKeys ==
    QueryClasses \cup getOptionalInstanceExtensions \cup getOptionalDeviceExtensions
    \cup {"validation_layers"}

\* One more line for each of the missing items.
WarnMissing(w, missing) ==
    [k \in DOMAIN w |-> IF k \in missing THEN w[k] + 1 ELSE w[k]]

\* What one poll of the vendor library can return.
\* A failed query returns no value: its field is then held at one value.
NvmlReadings ==
    {r \in [powerStateOk: BOOLEAN, powerState: {7, 8},
            temperatureOk: BOOLEAN, temperature: {74, 75, 85, 95},
            usageOk: BOOLEAN, budgetOk: BOOLEAN,
            power: {<<10000, 60000>>, <<40000, 60000>>, <<10000, 0>>}] :
        /\ (~r.powerStateOk => r.powerState = 7)
        /\ (~r.temperatureOk => r.temperature = 74)
        /\ (~(r.usageOk /\ r.budgetOk) => r.power = <<10000, 0>>)}

\* What one poll of the tooling-info entry point can return. The second call is
\* made only after the first succeeded, and the tools are read only after both.
ToolLists ==
    {<<>>, <<{"VALIDATION"}>>, <<{"MONITORING"}>>,
     <<{"PROFILING", "TRACING"}, {"VALIDATION", "MONITORING"}>>}

ToolingReadings ==
    {r \in [countOk: BOOLEAN, toolsOk: BOOLEAN, tools: ToolLists] :
        /\ (~r.countOk => r.toolsOk)
        /\ (~(r.countOk /\ r.toolsOk) => r.tools = <<>>)}

\* The part of the handle a poll reads and writes, and the query classes that
\* failed during the poll.
PollState(c, rt, w) ==
    [lowPowerStatus |-> c.lowPowerStatus, getThermalState |-> c.getThermalState,
     providerErrorLogged |-> rt.providerErrorLogged, warnings |-> w, failed |-> {}]

\* JST_WARN once, then providerErrorLogged.store(true)
WarnOnce(st, class) ==
    IF ~st.providerErrorLogged
    THEN [st EXCEPT !.warnings[class] = @ + 1, !.providerErrorLogged = TRUE]
    ELSE st

\* A failure path that puts the dynamic fields back to their defaults.
QueryFailed_resetsFields(st, class) ==
    WarnOnce([st EXCEPT !.failed = @ \cup {class},
                        !.lowPowerStatus = FALSE, !.getThermalState = 0], class)

\* The else-branch of a query whose status is not success.
QueryFailed(st, class) == WarnOnce([st EXCEPT !.failed = @ \cup {class}], class)

\* A poll that classifies the power budget first and the power state last.
updateTelemetryFromNvml_powerStateLast(c, st, r) ==
    IF ~hasNvml \/ c.telemetryHandle = "null" THEN st
    ELSE
    LET s1 == IF r.usageOk /\ r.budgetOk
              THEN [st EXCEPT !.lowPowerStatus =
                        IsLowPowerFromPowerBudget(r.power[1], r.power[2],
                                                  DefaultThresholdPercent)]
              ELSE QueryFailed(st, "nvml_power_budget")
        s2 == IF r.temperatureOk
              THEN [s1 EXCEPT !.getThermalState = ThermalBucketFromCelsius(r.temperature)]
              ELSE QueryFailed(s1, "nvml_temperature")
        s3 == IF r.powerStateOk
              THEN [s2 EXCEPT !.lowPowerStatus = IsLowPowerFromPState(r.powerState)]
              ELSE QueryFailed(s2, "nvml_power_state")
    IN  s3

updateTelemetryFromNvml(c, st, r) ==
    IF ~hasNvml \/ c.telemetryHandle = "null" THEN st
    ELSE
    LET s1 == IF r.powerStateOk
              THEN [st EXCEPT !.lowPowerStatus = IsLowPowerFromPState(r.powerState)]
              ELSE QueryFailed(st, "nvml_power_state")
        s2 == IF r.temperatureOk
              THEN [s1 EXCEPT !.getThermalState = ThermalBucketFromCelsius(r.temperature)]
              ELSE QueryFailed(s1, "nvml_temperature")
        s3 == IF r.usageOk /\ r.budgetOk
              THEN [s2 EXCEPT !.lowPowerStatus =
                        IsLowPowerFromPowerBudget(r.power[1], r.power[2],
                                                  DefaultThresholdPercent)]
              ELSE QueryFailed(s2, "nvml_power_budget")
    IN  s3

\* A poll that reports low power when a monitoring tool is attached.
updateTelemetryFromToolingInfo_sameSign(c, st, r) ==
    IF ~c.toolingInfoFn THEN st
    ELSE IF ~r.countOk THEN QueryFailed(st, "tooling_count")
    ELSE IF ~r.toolsOk THEN QueryFailed(st, "tooling_properties")
    ELSE LET monitoringToolPresent ==
                 \E i \in 1 .. Len(r.tools) : "MONITORING" \in r.tools[i]
         IN  [st EXCEPT !.lowPowerStatus = monitoringToolPresent,
                        !.getThermalState = IF monitoringToolPresent THEN 1 ELSE 0]

updateTelemetryFromToolingInfo(c, st, r) ==
    IF ~c.toolingInfoFn THEN st
    ELSE IF ~r.countOk THEN QueryFailed(st, "tooling_count")
    ELSE IF ~r.toolsOk THEN QueryFailed(st, "tooling_properties")
    ELSE LET monitoringToolPresent ==
                 \E i \in 1 .. Len(r.tools) : "MONITORING" \in r.tools[i]
         IN  [st EXCEPT !.lowPowerStatus = ~monitoringToolPresent,
                        !.getThermalState = IF monitoringToolPresent THEN 1 ELSE 0]

pollTelemetry(c, st, r) ==
    CASE c.telemetryProviderType = "NVML" -> updateTelemetryFromNvml(c, st, r)
      [] c.telemetryProviderType = "TOOLING_INFO" -> updateTelemetryFromToolingInfo(c, st, r)
      [] OTHER -> st

\* The readings the committed provider's queries can produce.
ReadingsOf(c) ==
    CASE c.telemetryProviderType = "NVML" -> NvmlReadings
      [] c.telemetryProviderType = "TOOLING_INFO" -> ToolingReadings
      [] OTHER -> {[none |-> TRUE]}

\* ---------------------------------------------------------------- scheduler

Position == {"unborn", "check", "ready", "polling", "sleeping", "exited", "joined"}

Running(th) == {t \in DOMAIN th : th[t] \in {"check", "ready", "polling", "sleeping"}}

Unborn(th) == {t \in DOMAIN th : th[t] = "unborn"}

\* A start() that has lost its early return.
StartIsNoop_never(rt) == FALSE

\* if (telemetryRuntime.running.load()) return;
StartIsNoop(rt) == rt.running

\* A start() that spawns the worker without clearing providerErrorLogged.
startTelemetryPolling_keepsErrorFlag(rt, th) ==
    IF StartIsNoop(rt)
    THEN [rt |-> rt, thread |-> th]
    ELSE LET id == CHOOSE t \in Unborn(th) : \A u \in Unborn(th) : t <= u
         IN  [rt |-> [rt EXCEPT !.running = TRUE, !.worker = id],
              thread |-> [th EXCEPT ![id] = "check"]]

\* startTelemetryPolling(): the new telemetryRuntime and thread table.
startTelemetryPolling(rt, th) ==
    IF StartIsNoop(rt)
    THEN [rt |-> rt, thread |-> th]
    ELSE LET id == CHOOSE t \in Unborn(th) : \A u \in Unborn(th) : t <= u
         IN  [rt |-> [running |-> TRUE, providerErrorLogged |-> FALSE, worker |-> id],
              thread |-> [th EXCEPT ![id] = "check"]]

\* A stop() that flips the flag and returns without joining.
StopNeedsJoin_never(wasRunning, joinable) == FALSE

\* wasRunning && telemetryRuntime.worker.joinable()
StopNeedsJoin(wasRunning, joinable) == wasRunning /\ joinable


\* ------------------------------------------------------------ initial state

InstanceExtensionNames ==
    {"VK_KHR_surface", "VK_EXT_debug_report", "VK_KHR_portability_enumeration",
     "VK_EXT_tooling_info"} \cup PlatformSurfaceExtensions

DeviceExtensionNames == {"VK_KHR_swapchain"} \cup getOptionalDeviceExtensions

Device(vendor, extensions, queues, samples) ==
    [vendorID |-> vendor, extensions |-> extensions,
     queueFamiliesComplete |-> queues,
     framebufferColorSampleCounts |-> samples[1],
     framebufferDepthSampleCounts |-> samples[2]]

\* samples: the colour and the depth sample counts of the device's limits.
DiscreteNvidia ==
    Device(NvidiaVendorId, DeviceExtensionNames, TRUE, <<{1, 2, 4, 8}, {1, 2, 4, 8}>>)
OtherGpu ==
    Device(0, {"VK_KHR_swapchain", "VK_EXT_external_memory_host"}, TRUE,
           <<{1, 2, 4, 8}, {1, 4}>>)
ComputeOnly == Device(0, {}, FALSE, <<{1}, {1}>>)
\* A device with the required capability and none of the optional ones.
SwapchainOnly == Device(0, {"VK_KHR_swapchain"}, TRUE, <<{1}, {1}>>)

\* A device that can present but lacks a queue role, and one that has every
\* queue role but cannot present.
NoPresentQueue == Device(0, {"VK_KHR_swapchain"}, FALSE, <<{1, 2, 4}, {1, 2, 4}>>)
HeadlessGpu == Device(0, {"VK_EXT_external_memory_host"}, TRUE, <<{1, 2}, {1, 2, 4}>>)

\* Machines the negotiation and the device selection are explored on.
BootstrapMachines ==
    {<<>>, <<DiscreteNvidia>>, <<HeadlessGpu>>, <<SwapchainOnly>>,
     <<NoPresentQueue, OtherGpu>>,
     <<HeadlessGpu, NoPresentQueue, DiscreteNvidia>>,
     <<DiscreteNvidia, OtherGpu, DiscreteNvidia>>}

BootstrapInstanceExtensions ==
    {InstanceExtensionNames,
     InstanceExtensionNames \ {"VK_EXT_tooling_info"},
     InstanceExtensionNames \ {"VK_KHR_portability_enumeration", "VK_EXT_tooling_info"},
     InstanceExtensionNames \ PlatformSurfaceExtensions,
     InstanceExtensionNames \ {"VK_EXT_debug_report"}}

BootstrapConfigs ==
    [deviceId: 0 .. MaxDeviceId, headless: BOOLEAN, validationEnabled: BOOLEAN,
     multisampling: {4, 16}, stagingBufferSize: {64}]

\* Machines the handle's life cycle is explored on.
Machines == {<<DiscreteNvidia>>, <<ComputeOnly, OtherGpu>>, <<SwapchainOnly>>, <<>>}

Configs ==
    [deviceId: 0 .. MaxDeviceId, headless: {FALSE}, validationEnabled: BOOLEAN,
     multisampling: {16}, stagingBufferSize: {64}]

\* cache({}), telemetryRuntime and _isAvailable as the constructor finds them.
InitVulkan ==
    /\ pc = "instanceExtensions"
    /\ supportedInstanceExtensions = {}
    /\ supportedDeviceExtensions = {}
    /\ physicalDevice = 0
    /\ cache = [telemetryProviderType |-> "NONE", telemetryHandle |-> "null",
                telemetryLibraryInitialized |-> FALSE, toolingInfoFn |-> FALSE,
                lowPowerStatus |-> FALSE, getThermalState |-> 0,
                canImportDeviceMemory |-> FALSE, canExportDeviceMemory |-> FALSE,
                canImportHostMemory |-> FALSE]
    /\ telemetryRuntime = [running |-> FALSE, providerErrorLogged |-> FALSE, worker |-> 0]
    /\ thread = [t \in 1 .. MaxThreads |-> "unborn"]
    /\ isAvailable = FALSE
    /\ live = {}
    /\ acquired = <<>>
    /\ released = <<>>
    /\ nvml = [inits |-> 0, shutdowns |-> 0]
    /\ warnings = [k \in WarningKeys |-> 0]
    /\ teardown = 0
    /\ calls = <<>>

InitWebGPU ==
    /\ wpc = "unbuilt"
    /\ telemetryActive = FALSE
    /\ wcache = [lowPowerStatus |-> FALSE, getThermalState |-> 0]
    /\ warningLogged = [lowPower |-> FALSE, thermal |-> FALSE]
    /\ pending = 0
    /\ wwarnings = [lowPower |-> 0, thermal |-> 0]
    /\ lateFire = [fired |-> 0, read |-> FALSE, refreshed |-> FALSE, rescheduled |-> FALSE]

\* The handles' lifecycles call the helpers from inside their polls only.
NoHelperCall ==
    /\ helperArgs = [fn |-> "none"]
    /\ helperResult = <<>>

\* Without the library no call into it succeeds, a device is bound only through
\* an initialized library, and an entry point resolves only if its extension exists.
Libraries ==
    /\ nvmlInitOk \in BOOLEAN
    /\ nvmlHandleOk \in BOOLEAN
    /\ toolingFnResolves \in BOOLEAN
    /\ nvmlInitOk => hasNvml
    /\ nvmlHandleOk => nvmlInitOk
    /\ toolingFnResolves => "VK_EXT_tooling_info" \in availableInstanceExtensions

Init ==
    /\ hasNvml \in BOOLEAN
    /\ availableInstanceExtensions \in
           {InstanceExtensionNames, InstanceExtensionNames \ {"VK_EXT_tooling_info"}}
    /\ availableLayers \in {getRequiredValidationLayers, {}}
    /\ physicalDevices \in Machines
    /\ Libraries
    /\ config \in Configs
    /\ callerConfig = config
    /\ InitVulkan
    /\ InitWebGPU
    /\ NoHelperCall

\* The machines and configuration the scheduler's calls are explored on: every
\* library that is present answers.
InitScheduler ==
    /\ hasNvml \in BOOLEAN
    /\ availableInstanceExtensions \in
           {InstanceExtensionNames, InstanceExtensionNames \ {"VK_EXT_tooling_info"}}
    /\ availableLayers = getRequiredValidationLayers
    /\ physicalDevices \in Machines
    /\ nvmlInitOk = hasNvml
    /\ nvmlHandleOk = hasNvml
    /\ toolingFnResolves = ("VK_EXT_tooling_info" \in availableInstanceExtensions)
    /\ config \in {c \in Configs : c.deviceId = 0 /\ c.validationEnabled}
    /\ callerConfig = config
    /\ InitVulkan
    /\ InitWebGPU
    /\ NoHelperCall

\* ------------------------------------------------ Vulkan::Vulkan, step by step

\* JST_CHECK_THROW(Result::FATAL) and a failed JST_VK_CHECK_THROW: the exception
\* leaves the constructor. No call site has a handler or a guard object, and the
\* destructor body does not run for an object whose constructor threw: nothing
\* is released.
Throw ==
    /\ pc' = "failed"
    /\ UNCHANGED <<config, supportedInstanceExtensions, supportedDeviceExtensions,
                   physicalDevice, cache, telemetryRuntime, thread, isAvailable,
                   live, acquired, released, nvml, warnings, teardown, calls>>

\* A native create call that either fails fatally or yields the object.
Create(at, object, next) ==
    /\ pc = at
    /\ \E ok \in BOOLEAN :
         IF ok
         THEN /\ live' = live \cup {object}
              /\ acquired' = Append(acquired, object)
              /\ pc' = next
              /\ UNCHANGED <<config, supportedInstanceExtensions,
                             supportedDeviceExtensions, physicalDevice, cache,
                             telemetryRuntime, thread, isAvailable, released,
                             nvml, warnings, teardown, calls>>
         ELSE Throw
    /\ UNCHANGED <<worldVars, helperVars, webVars>>

GatherInstanceExtensions ==
    /\ pc = "instanceExtensions"
    /\ LET requiredExtensions == getRequiredInstanceExtensions(config)
           optionalExtensions == getOptionalInstanceExtensions
           supportedRequired == checkInstanceExtensionSupport(requiredExtensions)
           unsupportedInstanceExtensions == requiredExtensions \ supportedRequired
       IN  IF unsupportedInstanceExtensions # {}
           THEN Throw
           ELSE LET supported ==
                        supportedRequired \cup checkInstanceExtensionSupport(optionalExtensions)
                IN  /\ supportedInstanceExtensions' = supported
                    /\ warnings' = WarnMissing(warnings, optionalExtensions \ supported)
                    /\ pc' = "validationLayers"
                    /\ UNCHANGED <<config, supportedDeviceExtensions, physicalDevice,
                                   cache, telemetryRuntime, thread, isAvailable, live,
                                   acquired, released, nvml, teardown, calls>>
    /\ UNCHANGED <<worldVars, helperVars, webVars>>

\* A negotiation that sets validationEnabled to whatever the layers allow.
GatherValidationLayers_followsSupport ==
    /\ pc = "validationLayers"
    /\ LET requiredValidationLayers == getRequiredValidationLayers
           supportedValidationLayers == checkValidationLayerSupport(requiredValidationLayers)
           validationLayerCheck ==
               Cardinality(requiredValidationLayers) = Cardinality(supportedValidationLayers)
       IN  /\ warnings' = IF config.validationEnabled /\ ~validationLayerCheck
                          THEN WarnMissing(warnings, {"validation_layers"})
                          ELSE warnings
           /\ config' = [config EXCEPT !.validationEnabled = validationLayerCheck]
    /\ pc' = "createInstance"
    /\ UNCHANGED <<supportedInstanceExtensions, supportedDeviceExtensions,
                   physicalDevice, cache, telemetryRuntime, thread, isAvailable,
                   live, acquired, released, nvml, teardown, calls>>
    /\ UNCHANGED <<worldVars, helperVars, webVars>>

GatherValidationLayers ==
    /\ pc = "validationLayers"
    /\ LET requiredValidationLayers == getRequiredValidationLayers
           supportedValidationLayers == checkValidationLayerSupport(requiredValidationLayers)
           validationLayerCheck ==
               Cardinality(requiredValidationLayers) = Cardinality(supportedValidationLayers)
       IN  IF config.validationEnabled /\ ~validationLayerCheck
           THEN /\ warnings' = WarnMissing(warnings, {"validation_layers"})
                /\ config' = [config EXCEPT !.validationEnabled = FALSE]
           ELSE UNCHANGED <<warnings, config>>
    /\ pc' = "createInstance"
    /\ UNCHANGED <<supportedInstanceExtensions, supportedDeviceExtensions,
                   physicalDevice, cache, telemetryRuntime, thread, isAvailable,
                   live, acquired, released, nvml, teardown, calls>>
    /\ UNCHANGED <<worldVars, helperVars, webVars>>

\* enabledLayerCount and ppEnabledLayerNames of the instance's and of the logical
\* device's create info.
EnabledLayers(cfg) ==
    IF cfg.validationEnabled
    THEN checkValidationLayerSupport(getRequiredValidationLayers)
    ELSE {}

CreateInstance == Create("createInstance", "instance", "debugReport")

\* vkGetInstanceProcAddr may return null and the create call may fail: both fatal.
\* A setup that looks at the flag the caller passed, not at the downgraded one.
SetupDebugReport_callerFlag ==
    IF callerConfig.validationEnabled
    THEN Create("debugReport", "debugReportCallback", "physicalDevice")
    ELSE /\ pc = "debugReport"
         /\ pc' = "physicalDevice"
         /\ UNCHANGED <<config, supportedInstanceExtensions, supportedDeviceExtensions,
                        physicalDevice, cache, telemetryRuntime, thread, isAvailable,
                        live, acquired, released, nvml, warnings, teardown, calls>>
         /\ UNCHANGED <<worldVars, helperVars, webVars>>

SetupDebugReport ==
    IF config.validationEnabled
    THEN Create("debugReport", "debugReportCallback", "physicalDevice")
    ELSE /\ pc = "debugReport"
         /\ pc' = "physicalDevice"
         /\ UNCHANGED <<config, supportedInstanceExtensions, supportedDeviceExtensions,
                        physicalDevice, cache, telemetryRuntime, thread, isAvailable,
                        live, acquired, released, nvml, warnings, teardown, calls>>
         /\ UNCHANGED <<worldVars, helperVars, webVars>>

\* A filter that has lost its queue-family check.
IsValidCandidate_ignoresQueues(cfg, device) ==
    LET requiredExtensions == getRequiredDeviceExtensions(cfg)
        supportedExtensions == checkDeviceExtensionSupport(device, requiredExtensions)
    IN  Cardinality(requiredExtensions) = Cardinality(supportedExtensions)

\* extensionCheck && queueFamilyCheck
IsValidCandidate(cfg, device) ==
    LET requiredExtensions == getRequiredDeviceExtensions(cfg)
        supportedExtensions == checkDeviceExtensionSupport(device, requiredExtensions)
    IN  /\ Cardinality(requiredExtensions) = Cardinality(supportedExtensions)
        /\ device.queueFamiliesComplete

\* A candidate list that is the raw enumeration.
validPhysicalDevices_unfiltered(cfg, devices) == [i \in 1 .. Len(devices) |-> i]

\* Indices of the valid candidates, in enumeration order.
validPhysicalDevices(cfg, devices) ==
    SelectSeq([i \in 1 .. Len(devices) |-> i],
              LAMBDA i : IsValidCandidate(cfg, devices[i]))

GetPhysicalDevice ==
    /\ pc = "physicalDevice"
    /\ LET   physicalDeviceCount == Len(physicalDevices)
             valid == validPhysicalDevices(config, physicalDevices)
         IN  IF \/ physicalDeviceCount = 0
                \/ physicalDeviceCount <= config.deviceId
                \/ Len(valid) = 0
                \/ Len(valid) <= config.deviceId
             THEN Throw
             ELSE /\ physicalDevice' = valid[config.deviceId + 1]
                  /\ pc' = "deviceExtensions"
                  /\ UNCHANGED <<config, supportedInstanceExtensions,
                                 supportedDeviceExtensions, cache, telemetryRuntime,
                                 thread, isAvailable, live, acquired, released,
                                 nvml, warnings, teardown, calls>>
    /\ UNCHANGED <<worldVars, helperVars, webVars>>

GatherDeviceExtensions ==
    /\ pc = "deviceExtensions"
    /\ LET device == physicalDevices[physicalDevice]
           optionalExtensions == getOptionalDeviceExtensions
           supported ==
               checkDeviceExtensionSupport(device, getRequiredDeviceExtensions(config))
               \cup checkDeviceExtensionSupport(device, optionalExtensions)
       IN  /\ supportedDeviceExtensions' = supported
           /\ warnings' = WarnMissing(warnings, optionalExtensions \ supported)
    /\ pc' = "cache"
    /\ UNCHANGED <<config, supportedInstanceExtensions, physicalDevice, cache,
                   telemetryRuntime, thread, isAvailable, live, acquired, released,
                   nvml, teardown, calls>>
    /\ UNCHANGED <<worldVars, helperVars, webVars>>

\* A cache that answers host-memory import from the device-memory capability.
PopulateCache_hostFromFd ==
    /\ pc = "cache"
    /\ cache' = [cache EXCEPT
           !.getThermalState = 0,
           !.lowPowerStatus = FALSE,
           !.canImportDeviceMemory = "VK_KHR_external_memory_fd" \in supportedDeviceExtensions,
           !.canExportDeviceMemory = "VK_KHR_external_memory_fd" \in supportedDeviceExtensions,
           !.canImportHostMemory = "VK_KHR_external_memory_fd" \in supportedDeviceExtensions]
    /\ pc' = "initializeTelemetry"
    /\ UNCHANGED <<config, supportedInstanceExtensions, supportedDeviceExtensions,
                   physicalDevice, telemetryRuntime, thread, isAvailable, live,
                   acquired, released, nvml, warnings, teardown, calls>>
    /\ UNCHANGED <<worldVars, helperVars, webVars>>

PopulateCache ==
    /\ pc = "cache"
    /\ cache' = [cache EXCEPT
           !.getThermalState = 0,
           !.lowPowerStatus = FALSE,
           !.canImportDeviceMemory = "VK_KHR_external_memory_fd" \in supportedDeviceExtensions,
           !.canExportDeviceMemory = "VK_KHR_external_memory_fd" \in supportedDeviceExtensions,
           !.canImportHostMemory = "VK_EXT_external_memory_host" \in supportedDeviceExtensions]
    /\ pc' = "initializeTelemetry"
    /\ UNCHANGED <<config, supportedInstanceExtensions, supportedDeviceExtensions,
                   physicalDevice, telemetryRuntime, thread, isAvailable, live,
                   acquired, released, nvml, warnings, teardown, calls>>
    /\ UNCHANGED <<worldVars, helperVars, webVars>>


\* ------------------------------------------------------ telemetry provider chain

\* A setup that commits the vendor library without looking at the bind's status.
setupNvmlTelemetry_ignoresBind(c, lib) ==
    IF ~hasNvml \/ ~nvmlInitOk
    THEN [ready |-> FALSE, cache |-> c, nvml |-> lib]
    ELSE [ready |-> TRUE,
          cache |-> [c EXCEPT !.telemetryProviderType = "NVML",
                              !.telemetryHandle = "nvmlDevice",
                              !.telemetryLibraryInitialized = TRUE,
                              !.toolingInfoFn = FALSE],
          nvml |-> [lib EXCEPT !.inits = @ + 1]]

\* setupNvmlTelemetry(): whether it committed, the cache and the library after it.
setupNvmlTelemetry(c, lib) ==
    IF ~hasNvml \/ ~nvmlInitOk
    THEN [ready |-> FALSE, cache |-> c, nvml |-> lib]
    ELSE IF ~nvmlHandleOk
    THEN [ready |-> FALSE, cache |-> c,
          nvml |-> [inits |-> lib.inits + 1, shutdowns |-> lib.shutdowns + 1]]
    ELSE [ready |-> TRUE,
          cache |-> [c EXCEPT !.telemetryProviderType = "NVML",
                              !.telemetryHandle = "nvmlDevice",
                              !.telemetryLibraryInitialized = TRUE,
                              !.toolingInfoFn = FALSE],
          nvml |-> [lib EXCEPT !.inits = @ + 1]]

\* The last two calls after one more returned.
Returned(log, call) == IF Len(log) < 2 THEN Append(log, call) ELSE <<log[2], call>>

\* An initializeTelemetry() that has lost its early return.
TelemetryReady_always(c) == TRUE

\* telemetryReady at the early return: some provider committed.
TelemetryReady(c) == c.telemetryProviderType # "NONE"

\* initializeTelemetry(): provider selection, the synchronous poll, start().
InitializeTelemetry ==
    /\ pc = "initializeTelemetry"
    /\ LET   c0 == [cache EXCEPT !.telemetryProviderType = "NONE",
                                 !.telemetryHandle = "null",
                                 !.telemetryLibraryInitialized = FALSE,
                                 !.toolingInfoFn = FALSE]
             vendor == physicalDevices[physicalDevice].vendorID
             n == IF hasNvml /\ vendor = NvidiaVendorId
                  THEN setupNvmlTelemetry(c0, nvml)
                  ELSE [ready |-> FALSE, cache |-> c0, nvml |-> nvml]
             c1 == IF /\ ~n.ready
                      /\ "VK_EXT_tooling_info" \in supportedInstanceExtensions
                      /\ toolingFnResolves
                   THEN [n.cache EXCEPT !.telemetryProviderType = "TOOLING_INFO",
                                        !.telemetryHandle = "physicalDevice",
                                        !.toolingInfoFn = TRUE]
                   ELSE n.cache
             telemetryReady == TelemetryReady(c1)
         IN  /\ nvml' = n.nvml
             /\ IF ~telemetryReady
                THEN /\ cache' = c1
                     /\ UNCHANGED <<telemetryRuntime, thread, warnings, calls>>
                ELSE \E r \in ReadingsOf(c1) :
                       LET st == pollTelemetry(c1, PollState(c1, telemetryRuntime, warnings), r)
                           rt == [telemetryRuntime EXCEPT
                                      !.providerErrorLogged = st.providerErrorLogged]
                           started == startTelemetryPolling(rt, thread)
                       IN  /\ cache' = [c1 EXCEPT !.lowPowerStatus = st.lowPowerStatus,
                                                  !.getThermalState = st.getThermalState]
                           /\ warnings' = st.warnings
                           /\ telemetryRuntime' = started.rt
                           /\ thread' = started.thread
                           /\ calls' = Returned(calls, "start")
    /\ pc' = "createDevice"
    /\ UNCHANGED <<config, supportedInstanceExtensions, supportedDeviceExtensions,
                   physicalDevice, isAvailable, live, acquired, released, teardown>>
    /\ UNCHANGED <<worldVars, helperVars, webVars>>

\* ------------------------------------------------------- resource bootstrap

CreateDevice == Create("createDevice", "device", "multisampling")

\* A limit read from the colour sample counts alone.
MaxSamples_colorOnly(properties) ==
    LET counts == properties.framebufferColorSampleCounts
    IN  CHOOSE m \in counts : \A n \in counts : n <= m

\* The largest sample count of 64 .. 2 that both framebuffer limits offer, else 1.
MaxSamples(properties) ==
    LET counts == properties.framebufferColorSampleCounts
                  \cap properties.framebufferDepthSampleCounts
    IN  IF 64 \in counts THEN 64
        ELSE IF 32 \in counts THEN 32
        ELSE IF 16 \in counts THEN 16
        ELSE IF 8 \in counts THEN 8
        ELSE IF 4 \in counts THEN 4
        ELSE IF 2 \in counts THEN 2
        ELSE 1

ValidateMultisampling ==
    /\ pc = "multisampling"
    /\ LET maxSamples == MaxSamples(physicalDevices[physicalDevice])
       IN  config' = IF config.multisampling > maxSamples
                     THEN [config EXCEPT !.multisampling = maxSamples]
                     ELSE config
    /\ pc' = "descriptorPool"
    /\ UNCHANGED <<supportedInstanceExtensions, supportedDeviceExtensions,
                   physicalDevice, cache, telemetryRuntime, thread, isAvailable,
                   live, acquired, released, nvml, warnings, teardown, calls>>
    /\ UNCHANGED <<worldVars, helperVars, webVars>>

CreateDescriptorPool == Create("descriptorPool", "descriptorPool", "stagingBuffer")

CreateStagingBuffer == Create("stagingBuffer", "stagingBuffer", "stagingMemory")

AllocateStagingMemory == Create("stagingMemory", "stagingBufferMemory", "bindStaging")

\* vkBindBufferMemory acquires nothing; its failure is fatal all the same.
BindStagingMemory ==
    /\ pc = "bindStaging"
    /\ \E ok \in BOOLEAN :
         IF ok
         THEN /\ pc' = "mapStaging"
              /\ UNCHANGED <<config, supportedInstanceExtensions,
                             supportedDeviceExtensions, physicalDevice, cache,
                             telemetryRuntime, thread, isAvailable, live, acquired,
                             released, nvml, warnings, teardown, calls>>
         ELSE Throw
    /\ UNCHANGED <<worldVars, helperVars, webVars>>

MapStagingMemory == Create("mapStaging", "stagingBufferMappedMemory", "commandPool")

CreateCommandPool == Create("commandPool", "defaultCommandPool", "commandBuffer")

AllocateCommandBuffer == Create("commandBuffer", "defaultCommandBuffer", "fence")

CreateFence == Create("fence", "defaultFence", "available")

\* _isAvailable = true; the constructor returns.
SignalAvailable ==
    /\ pc = "available"
    /\ isAvailable' = TRUE
    /\ pc' = "alive"
    /\ UNCHANGED <<config, supportedInstanceExtensions, supportedDeviceExtensions,
                   physicalDevice, cache, telemetryRuntime, thread, live, acquired,
                   released, nvml, warnings, teardown, calls>>
    /\ UNCHANGED <<worldVars, helperVars, webVars>>

ConstructorPositions ==
    {"instanceExtensions", "validationLayers", "createInstance", "debugReport",
     "physicalDevice", "deviceExtensions", "cache", "initializeTelemetry",
     "createDevice", "multisampling", "descriptorPool", "stagingBuffer",
     "stagingMemory", "bindStaging", "mapStaging", "commandPool", "commandBuffer",
     "fence", "available"}

\* ------------------------------------------------------------ worker thread

\* An exception leaving the constructor destroys telemetryRuntime.worker; a
\* std::thread destroyed while joinable calls std::terminate, which ends the
\* process and the worker with it.
ProcessRuns == ~(pc = "failed" /\ telemetryRuntime.worker # 0)

\* A loop that never looks at the flag.
WorkerLoad_ignoresFlag(t) ==
    /\ ProcessRuns
    /\ thread[t] = "check"
    /\ thread' = [thread EXCEPT ![t] = "ready"]
    /\ UNCHANGED <<config, pc, supportedInstanceExtensions, supportedDeviceExtensions,
                   physicalDevice, cache, telemetryRuntime, isAvailable, live,
                   acquired, released, nvml, warnings, teardown, calls>>
    /\ UNCHANGED <<worldVars, helperVars, webVars>>

\* while (telemetryRuntime.running.load())
WorkerLoad(t) ==
    /\ ProcessRuns
    /\ thread[t] = "check"
    /\ thread' = [thread EXCEPT ![t] = IF telemetryRuntime.running THEN "ready" ELSE "exited"]
    /\ UNCHANGED <<config, pc, supportedInstanceExtensions, supportedDeviceExtensions,
                   physicalDevice, cache, telemetryRuntime, isAvailable, live,
                   acquired, released, nvml, warnings, teardown, calls>>
    /\ UNCHANGED <<worldVars, helperVars, webVars>>

\* pollTelemetry() is entered
WorkerPollBegin(t) ==
    /\ ProcessRuns
    /\ thread[t] = "ready"
    /\ thread' = [thread EXCEPT ![t] = "polling"]
    /\ UNCHANGED <<config, pc, supportedInstanceExtensions, supportedDeviceExtensions,
                   physicalDevice, cache, telemetryRuntime, isAvailable, live,
                   acquired, released, nvml, warnings, teardown, calls>>
    /\ UNCHANGED <<worldVars, helperVars, webVars>>

\* A worker that gives up after a poll with a failed query.
WorkerPollEnd_stopsOnFailure(t) ==
    /\ ProcessRuns
    /\ thread[t] = "polling"
    /\ \E r \in ReadingsOf(cache) :
         LET st == pollTelemetry(cache, PollState(cache, telemetryRuntime, warnings), r)
         IN  /\ cache' = [cache EXCEPT !.lowPowerStatus = st.lowPowerStatus,
                                       !.getThermalState = st.getThermalState]
             /\ telemetryRuntime' = [telemetryRuntime EXCEPT
                                         !.providerErrorLogged = st.providerErrorLogged,
                                         !.running = IF st.failed = {} THEN @ ELSE FALSE]
             /\ warnings' = st.warnings
    /\ thread' = [thread EXCEPT ![t] = "sleeping"]
    /\ UNCHANGED <<config, pc, supportedInstanceExtensions, supportedDeviceExtensions,
                   physicalDevice, isAvailable, live, acquired, released, nvml,
                   teardown, calls>>
    /\ UNCHANGED <<worldVars, helperVars, webVars>>

\* A worker that drops the provider after a poll with a failed query.
WorkerPollEnd_fallsBack(t) ==
    /\ ProcessRuns
    /\ thread[t] = "polling"
    /\ \E r \in ReadingsOf(cache) :
         LET st == pollTelemetry(cache, PollState(cache, telemetryRuntime, warnings), r)
         IN  /\ cache' = [cache EXCEPT !.lowPowerStatus = st.lowPowerStatus,
                                       !.getThermalState = st.getThermalState,
                                       !.telemetryProviderType =
                                           IF st.failed = {} THEN @ ELSE "NONE"]
             /\ telemetryRuntime' = [telemetryRuntime EXCEPT
                                         !.providerErrorLogged = st.providerErrorLogged]
             /\ warnings' = st.warnings
    /\ thread' = [thread EXCEPT ![t] = "sleeping"]
    /\ UNCHANGED <<config, pc, supportedInstanceExtensions, supportedDeviceExtensions,
                   physicalDevice, isAvailable, live, acquired, released, nvml,
                   teardown, calls>>
    /\ UNCHANGED <<worldVars, helperVars, webVars>>

\* pollTelemetry() returns, its stores done
WorkerPollEnd(t) ==
    /\ ProcessRuns
    /\ thread[t] = "polling"
    /\ \E r \in ReadingsOf(cache) :
         LET st == pollTelemetry(cache, PollState(cache, telemetryRuntime, warnings), r)
         IN  /\ cache' = [cache EXCEPT !.lowPowerStatus = st.lowPowerStatus,
                                       !.getThermalState = st.getThermalState]
             /\ telemetryRuntime' = [telemetryRuntime EXCEPT
                                         !.providerErrorLogged = st.providerErrorLogged]
             /\ warnings' = st.warnings
    /\ thread' = [thread EXCEPT ![t] = "sleeping"]
    /\ UNCHANGED <<config, pc, supportedInstanceExtensions, supportedDeviceExtensions,
                   physicalDevice, isAvailable, live, acquired, released, nvml,
                   teardown, calls>>
    /\ UNCHANGED <<worldVars, helperVars, webVars>>

\* std::this_thread::sleep_for(telemetryRuntime.interval) returns
WorkerWake(t) ==
    /\ ProcessRuns
    /\ thread[t] = "sleeping"
    /\ thread' = [thread EXCEPT ![t] = "check"]
    /\ UNCHANGED <<config, pc, supportedInstanceExtensions, supportedDeviceExtensions,
                   physicalDevice, cache, telemetryRuntime, isAvailable, live,
                   acquired, released, nvml, warnings, teardown, calls>>
    /\ UNCHANGED <<worldVars, helperVars, webVars>>


\* ----------------------------------------------------------- Vulkan::~Vulkan

\* stopTelemetryPolling(): running.exchange(false), then whether it joins.
DestructorStop ==
    /\ pc = "alive"
    /\ LET wasRunning == telemetryRuntime.running
           joinable == telemetryRuntime.worker # 0
       IN  IF StopNeedsJoin(wasRunning, joinable)
           THEN /\ pc' = "dtor_join"
                /\ calls' = calls
           ELSE /\ pc' = "dtor_nvml"
                /\ calls' = Returned(calls, "stop")
    /\ telemetryRuntime' = [telemetryRuntime EXCEPT !.running = FALSE]
    /\ UNCHANGED <<config, supportedInstanceExtensions, supportedDeviceExtensions,
                   physicalDevice, cache, thread, isAvailable, live, acquired,
                   released, nvml, warnings, teardown>>
    /\ UNCHANGED <<worldVars, helperVars, webVars>>

\* telemetryRuntime.worker.join() returns once the worker's loop has ended.
DestructorJoin ==
    /\ pc = "dtor_join"
    /\ thread[telemetryRuntime.worker] = "exited"
    /\ thread' = [thread EXCEPT ![telemetryRuntime.worker] = "joined"]
    /\ telemetryRuntime' = [telemetryRuntime EXCEPT !.worker = 0]
    /\ calls' = Returned(calls, "stop")
    /\ pc' = "dtor_nvml"
    /\ UNCHANGED <<config, supportedInstanceExtensions, supportedDeviceExtensions,
                   physicalDevice, cache, isAvailable, live, acquired, released,
                   nvml, warnings, teardown>>
    /\ UNCHANGED <<worldVars, helperVars, webVars>>

DestructorNvmlShutdown ==
    /\ pc = "dtor_nvml"
    /\ IF /\ hasNvml
          /\ cache.telemetryProviderType = "NVML"
          /\ cache.telemetryLibraryInitialized
       THEN /\ nvml' = [nvml EXCEPT !.shutdowns = @ + 1]
            /\ cache' = [cache EXCEPT !.telemetryLibraryInitialized = FALSE]
       ELSE UNCHANGED <<nvml, cache>>
    /\ pc' = "dtor_release"
    /\ UNCHANGED <<config, supportedInstanceExtensions, supportedDeviceExtensions,
                   physicalDevice, telemetryRuntime, thread, isAvailable, live,
                   acquired, released, warnings, teardown, calls>>
    /\ UNCHANGED <<worldVars, helperVars, webVars>>

\* A destructor that destroys the logical device before the objects made from it.
TeardownOrder_deviceFirst ==
    <<"device", "defaultFence", "defaultCommandBuffer", "defaultCommandPool",
      "stagingBufferMappedMemory", "stagingBuffer", "stagingBufferMemory",
      "descriptorPool", "debugReportCallback", "instance">>

\* The destroy and free calls of the destructor, in program order.
TeardownOrder ==
    <<"defaultFence", "defaultCommandBuffer", "defaultCommandPool",
      "stagingBufferMappedMemory", "stagingBuffer", "stagingBufferMemory",
      "descriptorPool", "debugReportCallback", "device", "instance">>

\* One destroy call; the debug callback's only if its handle is not null.
DestructorRelease ==
    /\ pc = "dtor_release"
    /\ teardown < Len(TeardownOrder)
    /\ LET object == TeardownOrder[teardown + 1]
       IN  IF object = "debugReportCallback" /\ object \notin live
           THEN UNCHANGED <<live, released>>
           ELSE /\ live' = live \ {object}
                /\ released' = Append(released, object)
    /\ teardown' = teardown + 1
    /\ pc' = IF teardown + 1 = Len(TeardownOrder) THEN "destroyed" ELSE pc
    /\ UNCHANGED <<config, supportedInstanceExtensions, supportedDeviceExtensions,
                   physicalDevice, cache, telemetryRuntime, thread, isAvailable,
                   acquired, nvml, warnings, calls>>
    /\ UNCHANGED <<worldVars, helperVars, webVars>>

\* --------------------------------------------- scheduler calls on a live handle

\* startTelemetryPolling() called again by the owning thread.
CallStart ==
    /\ pc = "alive"
    /\ cache.telemetryProviderType # "NONE"
    /\ telemetryRuntime.running \/ Unborn(thread) # {}
    /\ LET started == startTelemetryPolling(telemetryRuntime, thread)
       IN  /\ telemetryRuntime' = started.rt
           /\ thread' = started.thread
    /\ calls' = Returned(calls, "start")
    /\ UNCHANGED <<config, pc, supportedInstanceExtensions, supportedDeviceExtensions,
                   physicalDevice, cache, isAvailable, live, acquired, released,
                   nvml, warnings, teardown>>
    /\ UNCHANGED <<worldVars, helperVars, webVars>>

\* stopTelemetryPolling() called by the owning thread.
CallStop ==
    /\ pc = "alive"
    /\ cache.telemetryProviderType # "NONE"
    /\ LET wasRunning == telemetryRuntime.running
           joinable == telemetryRuntime.worker # 0
       IN  IF StopNeedsJoin(wasRunning, joinable)
           THEN /\ pc' = "stop_join"
                /\ calls' = calls
           ELSE /\ pc' = "alive"
                /\ calls' = Returned(calls, "stop")
    /\ telemetryRuntime' = [telemetryRuntime EXCEPT !.running = FALSE]
    /\ UNCHANGED <<config, supportedInstanceExtensions, supportedDeviceExtensions,
                   physicalDevice, cache, thread, isAvailable, live, acquired,
                   released, nvml, warnings, teardown>>
    /\ UNCHANGED <<worldVars, helperVars, webVars>>

CallStopJoin ==
    /\ pc = "stop_join"
    /\ thread[telemetryRuntime.worker] = "exited"
    /\ thread' = [thread EXCEPT ![telemetryRuntime.worker] = "joined"]
    /\ telemetryRuntime' = [telemetryRuntime EXCEPT !.worker = 0]
    /\ calls' = Returned(calls, "stop")
    /\ pc' = "alive"
    /\ UNCHANGED <<config, supportedInstanceExtensions, supportedDeviceExtensions,
                   physicalDevice, cache, isAvailable, live, acquired, released,
                   nvml, warnings, teardown>>
    /\ UNCHANGED <<worldVars, helperVars, webVars>>

\* ------------------------------------------------------------ WebGPU handle

\* What the two browser hint queries can return (-1: not exposed).
LowPowerHints == {-1, 0, 1}
ThermalHints == {-1, 0, 1, 2, 3}

\* scheduleTelemetryRefresh(): emscripten_async_call unless inactive.
scheduleTelemetryRefresh(active, queued) == IF ~active THEN queued ELSE queued + 1

\* refreshTelemetry(): the dynamic fields, the two flags and the warning lines.
\* A refresh that stores the thermal hint without looking at its sign.
refreshTelemetry_storesAnyHint(st, lowPowerHint, thermalBucket) ==
    LET s1 == IF lowPowerHint >= 0
              THEN [st EXCEPT !.cache.lowPowerStatus = (lowPowerHint = 1)]
              ELSE IF ~st.logged.lowPower
              THEN [st EXCEPT !.warnings.lowPower = @ + 1, !.logged.lowPower = TRUE]
              ELSE st
    IN  [s1 EXCEPT !.cache.getThermalState = thermalBucket]

refreshTelemetry(st, lowPowerHint, thermalBucket) ==
    LET s1 == IF lowPowerHint >= 0
              THEN [st EXCEPT !.cache.lowPowerStatus = (lowPowerHint = 1)]
              ELSE IF ~st.logged.lowPower
              THEN [st EXCEPT !.warnings.lowPower = @ + 1, !.logged.lowPower = TRUE]
              ELSE st
        s2 == IF thermalBucket >= 0
              THEN [s1 EXCEPT !.cache.getThermalState = thermalBucket]
              ELSE IF ~s1.logged.thermal
              THEN [s1 EXCEPT !.warnings.thermal = @ + 1, !.logged.thermal = TRUE]
              ELSE s1
    IN  s2

\* WebGPU::WebGPU
WebConstruct ==
    /\ wpc = "unbuilt"
    /\ wcache' = [lowPowerStatus |-> FALSE, getThermalState |-> 0]
    /\ telemetryActive' = TRUE
    /\ pending' = scheduleTelemetryRefresh(TRUE, pending)
    /\ wpc' = "alive"
    /\ UNCHANGED <<warningLogged, wwarnings, lateFire>>
    /\ UNCHANGED <<worldVars, helperVars, vkVars>>

\* WebGPU::~WebGPU: the flag is cleared and the object's storage is given back.
WebDestroy ==
    /\ wpc = "alive"
    /\ telemetryActive' = FALSE
    /\ wpc' = "destroyed"
    /\ UNCHANGED <<wcache, warningLogged, pending, wwarnings, lateFire>>
    /\ UNCHANGED <<worldVars, helperVars, vkVars>>

\* WebGPU::TelemetryPump(userData). userData is never null; once the handle is
\* destroyed it dangles, and self->telemetryActive reads whatever the storage holds.
TelemetryPump ==
    /\ wpc # "unbuilt"
    /\ pending > 0
    /\ wpc = "destroyed" => lateFire.fired < MaxLateFires
    /\ \E seen \in (IF wpc = "alive" THEN {telemetryActive} ELSE BOOLEAN),
          lowPowerHint \in LowPowerHints, thermalBucket \in ThermalHints :
         LET st == [cache |-> wcache, logged |-> warningLogged, warnings |-> wwarnings]
             after == IF seen THEN refreshTelemetry(st, lowPowerHint, thermalBucket) ELSE st
         IN  /\ wcache' = after.cache
             /\ warningLogged' = after.logged
             /\ wwarnings' = after.warnings
             /\ pending' = IF seen THEN scheduleTelemetryRefresh(seen, pending - 1)
                           ELSE pending - 1
             /\ lateFire' = IF wpc = "destroyed"
                            THEN [fired |-> lateFire.fired + 1, read |-> TRUE,
                                  refreshed |-> seen, rescheduled |-> seen]
                            ELSE lateFire
    /\ UNCHANGED <<wpc, telemetryActive>>
    /\ UNCHANGED <<worldVars, helperVars, vkVars>>

\* ------------------------------------------------------------ specifications

Constructor ==
    \/ GatherInstanceExtensions
    \/ GatherValidationLayers
    \/ CreateInstance
    \/ SetupDebugReport
    \/ GetPhysicalDevice
    \/ GatherDeviceExtensions
    \/ PopulateCache
    \/ InitializeTelemetry
    \/ CreateDevice
    \/ ValidateMultisampling
    \/ CreateDescriptorPool
    \/ CreateStagingBuffer
    \/ AllocateStagingMemory
    \/ BindStagingMemory
    \/ MapStagingMemory
    \/ CreateCommandPool
    \/ AllocateCommandBuffer
    \/ CreateFence
    \/ SignalAvailable

Worker ==
    \E t \in 1 .. MaxThreads :
        \/ WorkerLoad(t)
        \/ WorkerPollBegin(t)
        \/ WorkerPollEnd(t)
        \/ WorkerWake(t)

Destructor ==
    \/ DestructorStop
    \/ DestructorJoin
    \/ DestructorNvmlShutdown
    \/ DestructorRelease

\* One Vulkan handle: constructed, used, destroyed.
Next == Constructor \/ Worker \/ Destructor

Spec == Init /\ [][Next]_vars

\* The same, with the scheduler's start() and stop() also called while alive.
NextScheduler == Next \/ CallStart \/ CallStop \/ CallStopJoin

SpecScheduler == InitScheduler /\ [][NextScheduler]_vars

\* The operating system schedules every worker thread again and again, every
\* poll and every sleep_for() returns, and a join() returns once its thread
\* has ended.
FairScheduling ==
    /\ \A t \in 1 .. MaxThreads :
           /\ WF_vars(WorkerLoad(t))
           /\ WF_vars(WorkerPollBegin(t))
           /\ WF_vars(WorkerPollEnd(t))
           /\ WF_vars(WorkerWake(t))
    /\ WF_vars(CallStopJoin)
    /\ WF_vars(DestructorJoin)

\* One machine whose device commits the vendor library when the build has
\* it and the tooling-info provider when it has not.
InitFair ==
    /\ InitScheduler
    /\ physicalDevices = <<DiscreteNvidia>>
    /\ "VK_EXT_tooling_info" \in availableInstanceExtensions

SpecFair == InitFair /\ [][NextScheduler]_vars /\ FairScheduling

\* The constructor alone, on every machine and configuration of the bootstrap,
\* in a build without the vendor library.
InitBootstrap ==
    /\ hasNvml = FALSE
    /\ nvmlInitOk = FALSE
    /\ nvmlHandleOk = FALSE
    /\ availableInstanceExtensions \in BootstrapInstanceExtensions
    /\ toolingFnResolves = ("VK_EXT_tooling_info" \in availableInstanceExtensions)
    /\ availableLayers \in {getRequiredValidationLayers, {}}
    /\ physicalDevices \in BootstrapMachines
    /\ config \in BootstrapConfigs
    /\ callerConfig = config
    /\ InitVulkan
    /\ InitWebGPU
    /\ NoHelperCall

SpecBootstrap == InitBootstrap /\ [][Constructor]_vars

\* One WebGPU handle under the host's event loop.
InitWeb ==
    /\ hasNvml = FALSE
    /\ availableInstanceExtensions = {}
    /\ availableLayers = {}
    /\ physicalDevices = <<>>
    /\ nvmlInitOk = FALSE
    /\ nvmlHandleOk = FALSE
    /\ toolingFnResolves = FALSE
    /\ config = [deviceId |-> 0, headless |-> FALSE, validationEnabled |-> FALSE,
                 multisampling |-> 4, stagingBufferSize |-> 64]
    /\ callerConfig = config
    /\ InitVulkan
    /\ InitWebGPU
    /\ NoHelperCall

NextWeb == WebConstruct \/ TelemetryPump \/ WebDestroy

SpecWeb == InitWeb /\ [][NextWeb]_vars

\* A process holds the handle of one backend: the WebGPU backend is built for
\* the browser only (a host that enumerates no Vulkan device), the Vulkan
\* backend for native hosts only.
NextBackends ==
    \/ wpc = "unbuilt" /\ Next
    \/ (pc = "instanceExtensions" /\ physicalDevices = <<>>) /\ NextWeb

SpecBackends == Init /\ [][NextBackends]_vars

\* The telemetry helpers called on their own, as tests/backend_telemetry.cc does.
\* A temperature is a U32: every value up to MaxCelsius and the largest word.
Celsius == (0 .. MaxCelsius) \cup {WordModulus - 1}

\* Two calls of the thermal rule, to compare their answers.
ThermalBucketCalls ==
    [fn : {"ThermalBucketFromCelsius"}, first : Celsius, second : Celsius]

\* A performance state is a U32.
PStates == (0 .. MaxPState) \cup {WordModulus - 1}

PStateCalls == [fn : {"IsLowPowerFromPState"}, pState : PStates]

\* Power draws: the small ones, the first one whose hundredfold fills a word
\* when the limit is 2, and the largest word. Limits: the small ones, zero included.
CurrentMilliwatts ==
    (0 .. MaxMilliwatts) \cup {(2 * WordModulus) \div 100 + 1, WordModulus - 1}

BudgetMilliwatts == 0 .. MaxMilliwatts

PowerBudgetCalls ==
    [fn : {"IsLowPowerFromPowerBudget"}, currentMilliwatts : CurrentMilliwatts,
     budgetMilliwatts : BudgetMilliwatts,
     utilizationThresholdPercent : {DefaultThresholdPercent}]

InitHelpers ==
    /\ hasNvml = FALSE
    /\ availableInstanceExtensions = {}
    /\ availableLayers = {}
    /\ physicalDevices = <<>>
    /\ nvmlInitOk = FALSE
    /\ nvmlHandleOk = FALSE
    /\ toolingFnResolves = FALSE
    /\ config = [deviceId |-> 0, headless |-> FALSE, validationEnabled |-> FALSE,
                 multisampling |-> 4, stagingBufferSize |-> 64]
    /\ callerConfig = config
    /\ InitVulkan
    /\ InitWebGPU
    /\ helperArgs \in ThermalBucketCalls \cup PStateCalls \cup PowerBudgetCalls
    /\ helperResult = <<>>

CallThermalBucketFromCelsius ==
    /\ helperArgs.fn = "ThermalBucketFromCelsius"
    /\ helperResult = <<>>
    /\ helperResult' = <<ThermalBucketFromCelsius(helperArgs.first),
                         ThermalBucketFromCelsius(helperArgs.second)>>
    /\ UNCHANGED <<worldVars, vkVars, webVars, helperArgs>>

CallIsLowPowerFromPState ==
    /\ helperArgs.fn = "IsLowPowerFromPState"
    /\ helperResult = <<>>
    /\ helperResult' = <<IsLowPowerFromPState(helperArgs.pState)>>
    /\ UNCHANGED <<worldVars, vkVars, webVars, helperArgs>>

CallIsLowPowerFromPowerBudget ==
    /\ helperArgs.fn = "IsLowPowerFromPowerBudget"
    /\ helperResult = <<>>
    /\ helperResult' = <<IsLowPowerFromPowerBudget(helperArgs.currentMilliwatts,
                                                   helperArgs.budgetMilliwatts,
                                                   helperArgs.utilizationThresholdPercent)>>
    /\ UNCHANGED <<worldVars, vkVars, webVars, helperArgs>>

NextHelpers ==
    \/ CallThermalBucketFromCelsius
    \/ CallIsLowPowerFromPState
    \/ CallIsLowPowerFromPowerBudget

SpecHelpers == InitHelpers /\ [][NextHelpers]_vars


\* ------------------------------------------------------------------- claims

Range(q) == {q[i] : i \in DOMAIN q}

DestructorPositions == {"dtor_join", "dtor_nvml", "dtor_release", "destroyed"}

\* C1: a construction that fails at any step has released every native object
\* acquired by the earlier steps: none is live when the failure is reported.
C1_RollbackOnFailure == pc = "failed" => live = {}

\* C2: during construction the telemetry provider is committed and the poll
\* worker exists only once the logical device and every pooled resource
\* (descriptor pool, staging buffer, command pool and buffer, fence) exist.
C2_TelemetryAfterBootstrap ==
    (/\ pc \in ConstructorPositions
     /\ \/ cache.telemetryProviderType # "NONE"
        \/ \E t \in DOMAIN thread : thread[t] # "unborn")
    => ({"device"} \cup DeviceObjects) \subseteq live

\* C3: when construction has failed, isAvailable is false and no telemetry worker
\* started by that construction is running or joinable.
C3_NoPartialHandle ==
    pc = "failed" =>
        /\ ~isAvailable
        /\ telemetryRuntime.worker = 0
        /\ Running(thread) = {}

\* C4: between the return of stopTelemetryPolling() and the next scheduler call,
\* no worker enters pollTelemetry().
C4_NoPollBeginsAfterStop ==
    [][(/\ calls # <<>>
        /\ calls[Len(calls)] = "stop"
        /\ calls' = calls)
       => \A t \in DOMAIN thread : thread'[t] = "polling" => thread[t] = "polling"]_vars

C4_Witness ==
    /\ pc = "alive"
    /\ calls # <<>>
    /\ calls[Len(calls)] = "stop"
    /\ \E t \in DOMAIN thread : thread[t] = "joined"

\* C5: the destructor stops the scheduler, then shuts the vendor library down if
\* this handle holds it initialized, then releases native objects: nothing is
\* released and the library stays up until the worker is gone, and from the
\* library shutdown on no worker is polling or able to poll.
C5_StopThenShutdownThenRelease ==
    /\ pc \in {"dtor_nvml", "dtor_release", "destroyed"} =>
           /\ ~telemetryRuntime.running
           /\ telemetryRuntime.worker = 0
           /\ Running(thread) = {}
    /\ pc \in {"alive", "dtor_join", "dtor_nvml"} =>
           /\ released = <<>>
           /\ cache.telemetryProviderType = "NVML" =>
                  cache.telemetryLibraryInitialized /\ nvml.shutdowns < nvml.inits
    /\ pc \in {"dtor_release", "destroyed"} =>
           /\ ~cache.telemetryLibraryInitialized
           /\ nvml.shutdowns = nvml.inits

C5_Witness ==
    /\ pc = "dtor_release"
    /\ released # <<>>
    /\ cache.telemetryProviderType = "NVML"
    /\ nvml.shutdowns = 1
    /\ \E t \in DOMAIN thread : thread[t] = "joined"

\* The stage of the bootstrap an object belongs to.
Stage(object) ==
    CASE object = "defaultFence" -> "fence"
      [] object \in {"defaultCommandBuffer", "defaultCommandPool"} -> "command"
      [] object \in {"stagingBuffer", "stagingBufferMemory",
                     "stagingBufferMappedMemory"} -> "staging"
      [] OTHER -> object

\* The stages of a log of objects, each run of one stage counted once; the debug
\* callback is left out.
Stages(log) ==
    LET objects == SelectSeq(log, LAMBDA o : o # "debugReportCallback")
        firsts == SelectSeq([i \in 1 .. Len(objects) |-> i],
                            LAMBDA i : i = 1 \/ Stage(objects[i]) # Stage(objects[i - 1]))
    IN  [k \in 1 .. Len(firsts) |-> Stage(objects[firsts[k]])]

Reverse(q) == [i \in 1 .. Len(q) |-> q[Len(q) + 1 - i]]

IsPrefix(p, q) == Len(p) <= Len(q) /\ \A i \in 1 .. Len(p) : p[i] = q[i]

\* C6: teardown releases the stages in the reverse of their allocation order
\* (fence, command buffer and pool, staging buffer, descriptor pool, logical
\* device, instance), each object once, none after the device or instance it
\* belongs to, and everything acquired has been released at the end.
C6_ReverseOrderTeardown ==
    /\ IsPrefix(Stages(released), Reverse(Stages(acquired)))
    /\ \A i, j \in DOMAIN released : released[i] = released[j] => i = j
    /\ \A i, j \in DOMAIN released :
           i < j => /\ released[i] # "instance"
                    /\ released[i] = "device" => released[j] \notin DeviceObjects
    /\ pc = "destroyed" =>
           /\ Stages(released) = <<"fence", "command", "staging", "descriptorPool",
                                   "device", "instance">>
           /\ Range(released) = Range(acquired)
           /\ live = {}

C6_Witness ==
    /\ pc = "destroyed"
    /\ "debugReportCallback" \in Range(released)
    /\ Len(released) = Cardinality(NativeObjects)

\* C7: a callback that fires after the WebGPU handle was torn down reads and
\* writes nothing of the handle, refreshes nothing and schedules nothing.
C7_LateCallbackIsNoop ==
    lateFire.fired > 0 =>
        /\ ~lateFire.read
        /\ ~lateFire.refreshed
        /\ ~lateFire.rescheduled

\* C8: a startTelemetryPolling() that finds running set changes nothing, and
\* while running is set exactly one worker exists, the one the handle holds.
C8_StartIdempotent ==
    /\ [](telemetryRuntime.running => Running(thread) = {telemetryRuntime.worker})
    /\ [][(/\ telemetryRuntime.running
           /\ calls' # <<>>
           /\ calls'[Len(calls')] = "start"
           /\ calls' # calls)
          => (telemetryRuntime' = telemetryRuntime /\ Running(thread') = Running(thread))]_vars

C8_Witness ==
    /\ calls = <<"start", "start">>
    /\ telemetryRuntime.running
    /\ Cardinality(Running(thread)) = 1

\* C9: whenever a worker is created, every earlier worker has exited and been
\* joined, the error flag is clear and the new worker is the only one; after a
\* stop() followed by a start(), until the next stop(), one worker runs and the
\* earlier ones are joined.
C9_FreshChainAfterRestart ==
    /\ [][(\E t \in DOMAIN thread : thread[t] = "unborn" /\ thread'[t] # "unborn")
          => /\ \A u \in DOMAIN thread : thread[u] \in {"unborn", "joined"}
             /\ telemetryRuntime.worker = 0
             /\ telemetryRuntime'.running
             /\ ~telemetryRuntime'.providerErrorLogged
             /\ Running(thread') = {telemetryRuntime'.worker}]_vars
    /\ []((calls = <<"stop", "start">> /\ telemetryRuntime.running) =>
             /\ Cardinality(Running(thread)) = 1
             /\ \A u \in DOMAIN thread \ {telemetryRuntime.worker} :
                    thread[u] \in {"unborn", "joined"})

C9_Witness ==
    /\ calls = <<"stop", "start">>
    /\ \E t \in DOMAIN thread : thread[t] = "joined"
    /\ Cardinality(Running(thread)) = 1

\* C10: within one handle's life a warning of one query class is logged at
\* most once, the synchronous poll of initializeTelemetry() included.
C10_WarnOncePerClass == \A q \in QueryClasses : warnings[q] <= 1

\* The outcomes the poll now executing can have, one for each thing its queries
\* can return.
PollOutcomes ==
    {pollTelemetry(cache, PollState(cache, telemetryRuntime, warnings), r) :
        r \in ReadingsOf(cache)}

\* C11: whenever a query of some class fails and no warning of that class has
\* been logged yet, the poll logs one, whatever other class was logged before.
C11_WarningPerErrorClass ==
    (\E t \in DOMAIN thread : thread[t] = "polling") =>
        \A o \in PollOutcomes : \A q \in o.failed :
            warnings[q] = 0 => o.warnings[q] = 1

\* What a poll that ended with outcome o kept of the fields whose queries failed.
RetainsFailedFields(o) ==
    /\ "nvml_temperature" \in o.failed => o.getThermalState = cache.getThermalState
    /\ {"nvml_power_state", "nvml_power_budget"} \subseteq o.failed =>
           o.lowPowerStatus = cache.lowPowerStatus
    /\ o.failed \cap {"tooling_count", "tooling_properties"} # {} =>
           /\ o.lowPowerStatus = cache.lowPowerStatus
           /\ o.getThermalState = cache.getThermalState

WebRetainsFailedFields ==
    (wpc = "alive" /\ pending > 0) =>
        \A lowPowerHint \in LowPowerHints, thermalBucket \in ThermalHints :
            LET o == refreshTelemetry([cache |-> wcache, logged |-> warningLogged,
                                       warnings |-> wwarnings],
                                      lowPowerHint, thermalBucket)
            IN  /\ lowPowerHint < 0 => o.cache.lowPowerStatus = wcache.lowPowerStatus
                /\ thermalBucket < 0 => o.cache.getThermalState = wcache.getThermalState

\* initializeTelemetry() has returned (nothing between the device selection
\* and it can fail).
TelemetryInitialized ==
    /\ physicalDevice # 0
    /\ pc \notin {"deviceExtensions", "cache", "initializeTelemetry"}

\* The vendor library would initialize and bind on the selected device.
NvmlWouldCommit ==
    /\ hasNvml
    /\ physicalDevices[physicalDevice].vendorID = NvidiaVendorId
    /\ nvmlInitOk
    /\ nvmlHandleOk

\* The tooling-info capability was negotiated and its entry point resolves.
ToolingWouldCommit ==
    /\ "VK_EXT_tooling_info" \in supportedInstanceExtensions
    /\ toolingFnResolves

\* C13: once initializeTelemetry() has returned the committed provider is NVML
\* iff the vendor matches and the library initialized and bound; else
\* TOOLING_INFO iff the capability was negotiated and its entry point resolved;
\* else NONE. The handle fields belong to the committed provider only, and a
\* library that initialized without committing was shut down again.
C13_ProviderPriority ==
    TelemetryInitialized =>
        /\ cache.telemetryProviderType =
               (IF NvmlWouldCommit THEN "NVML"
                ELSE IF ToolingWouldCommit THEN "TOOLING_INFO"
                ELSE "NONE")
        /\ cache.toolingInfoFn <=> cache.telemetryProviderType = "TOOLING_INFO"
        /\ cache.telemetryHandle =
               (CASE cache.telemetryProviderType = "NVML" -> "nvmlDevice"
                  [] cache.telemetryProviderType = "TOOLING_INFO" -> "physicalDevice"
                  [] OTHER -> "null")
        /\ cache.telemetryProviderType # "NVML" =>
               /\ ~cache.telemetryLibraryInitialized
               /\ nvml.inits = nvml.shutdowns

C13_Witness ==
    /\ TelemetryInitialized
    /\ cache.telemetryProviderType = "TOOLING_INFO"
    /\ physicalDevices[physicalDevice].vendorID = NvidiaVendorId
    /\ nvmlInitOk
    /\ ~nvmlHandleOk
    /\ nvml = [inits |-> 1, shutdowns |-> 1]

\* C14: while the committed provider is NONE no worker exists or has existed,
\* the scheduler has never been started, no query has run (none has warned),
\* and lowPowerStatus is false and the thermal bucket 0, up to and through the
\* destructor.
C14_NoProviderNoWork ==
    cache.telemetryProviderType = "NONE" =>
        /\ \A t \in DOMAIN thread : thread[t] = "unborn"
        /\ ~telemetryRuntime.running
        /\ telemetryRuntime.worker = 0
        /\ "start" \notin Range(calls)
        /\ \A q \in QueryClasses : warnings[q] = 0
        /\ ~cache.lowPowerStatus
        /\ cache.getThermalState = 0

C14_Witness ==
    /\ TelemetryInitialized
    /\ cache.telemetryProviderType = "NONE"
    /\ pc = "dtor_release"
    /\ calls = <<"stop">>
    /\ physicalDevices[physicalDevice].vendorID = NvidiaVendorId
    /\ nvmlInitOk

\* C15: when a required instance extension is not available, the constructor is
\* either still before its check or has failed, and no native object was ever
\* created: no instance, no debug callback, no logical device.
C15_MissingRequiredInstanceCapability ==
    getRequiredInstanceExtensions(config) \ availableInstanceExtensions # {} =>
        /\ pc \in {"instanceExtensions", "failed"}
        /\ live = {}
        /\ acquired = <<>>
        /\ physicalDevice = 0

C15_Witness ==
    /\ pc = "failed"
    /\ getRequiredInstanceExtensions(config) \ availableInstanceExtensions # {}
    /\ getRequiredInstanceExtensions(config) \cap availableInstanceExtensions # {}
    /\ live = {}

\* The instance-level negotiation has passed; the device-level one has run.
InstanceNegotiated ==
    /\ pc # "instanceExtensions"
    /\ getRequiredInstanceExtensions(config) \subseteq availableInstanceExtensions

DeviceNegotiated == physicalDevice # 0 /\ pc # "deviceExtensions"

\* C16: a missing optional extension fails neither negotiation; each missing
\* optional item has exactly one warning and each present one none; the set
\* enabled on the instance is the available part of required and optional
\* together, the set enabled on the device likewise, and neither changes later.
C16_OptionalCapabilityNonFatal ==
    /\ [][(/\ pc = "instanceExtensions"
           /\ getRequiredInstanceExtensions(config) \subseteq availableInstanceExtensions)
          => /\ pc' = "validationLayers"
             /\ supportedInstanceExtensions' =
                    (getRequiredInstanceExtensions(config) \cup getOptionalInstanceExtensions)
                    \cap availableInstanceExtensions]_vars
    /\ [][pc = "deviceExtensions" => pc' = "cache"]_vars
    /\ [][pc # "instanceExtensions" =>
              supportedInstanceExtensions' = supportedInstanceExtensions]_vars
    /\ [](InstanceNegotiated =>
              \A e \in getOptionalInstanceExtensions :
                  /\ warnings[e] = (IF e \in availableInstanceExtensions THEN 0 ELSE 1)
                  /\ e \in supportedInstanceExtensions <=> e \in availableInstanceExtensions)
    /\ [](~DeviceNegotiated =>
              \A e \in getOptionalDeviceExtensions : warnings[e] = 0)
    /\ [](DeviceNegotiated =>
              LET device == physicalDevices[physicalDevice]
              IN  /\ \A e \in getOptionalDeviceExtensions :
                         warnings[e] = (IF e \in device.extensions THEN 0 ELSE 1)
                  /\ supportedDeviceExtensions =
                         (getRequiredDeviceExtensions(config) \cup getOptionalDeviceExtensions)
                         \cap device.extensions)

C16_Witness ==
    /\ pc = "alive"
    /\ warnings["VK_EXT_tooling_info"] = 1
    /\ warnings["VK_KHR_portability_enumeration"] = 0
    /\ warnings["VK_KHR_external_memory_fd"] = 1
    /\ warnings["VK_EXT_external_memory_host"] = 0
    /\ supportedDeviceExtensions = {"VK_KHR_swapchain", "VK_EXT_external_memory_host"}

\* The validation-layer step has run.
LayersNegotiated == pc \notin {"instanceExtensions", "validationLayers"} /\ InstanceNegotiated

\* C17: the validation-layer step never fails; once it has run on a machine
\* without the validation layer, validationEnabled is false, the layers enabled
\* on the instance and on the logical device are none, and no debug callback is
\* or was registered; the downgrade is what the step did when validation was
\* requested.
C17_ValidationDowngrade ==
    /\ [][pc = "validationLayers" =>
              /\ pc' = "createInstance"
              /\ (config.validationEnabled /\ getRequiredValidationLayers \ availableLayers # {})
                     => (~config'.validationEnabled /\ warnings'["validation_layers"] = 1)]_vars
    /\ []((LayersNegotiated /\ getRequiredValidationLayers \ availableLayers # {}) =>
              /\ ~config.validationEnabled
              /\ EnabledLayers(config) = {}
              /\ "debugReportCallback" \notin live
              /\ "debugReportCallback" \notin Range(acquired))

C17_Witness ==
    /\ pc = "alive"
    /\ getRequiredValidationLayers \ availableLayers # {}
    /\ warnings["validation_layers"] = 1
    /\ ~config.validationEnabled
    /\ "VK_EXT_debug_report" \in supportedInstanceExtensions
    /\ "device" \in live

\* The enumerated devices that pass both filters, by position.
ValidIndices ==
    {i \in DOMAIN physicalDevices :
        /\ getRequiredDeviceExtensions(config) \subseteq physicalDevices[i].extensions
        /\ physicalDevices[i].queueFamiliesComplete}

SelectionMustFail ==
    \/ Len(physicalDevices) = 0
    \/ ValidIndices = {}
    \/ config.deviceId >= Len(physicalDevices)
    \/ config.deviceId >= Cardinality(ValidIndices)

\* C18: the selection step fails exactly when no device is enumerated, or none
\* is valid, or deviceId is not below the raw count, or not below the count of
\* valid candidates; a failed selection selects nothing, a successful one selects
\* an enumerated device, and no logical device exists without a selection.
C18_SelectionFailsExactlyWhen ==
    /\ [][pc = "physicalDevice" =>
              /\ pc' = "failed" <=> SelectionMustFail
              /\ pc' = "failed" => physicalDevice' = 0
              /\ pc' # "failed" =>
                     /\ pc' = "deviceExtensions"
                     /\ physicalDevice' \in DOMAIN physicalDevices]_vars
    /\ [](physicalDevice = 0 =>
              /\ "device" \notin live
              /\ "device" \notin Range(acquired))

C18_Witness ==
    /\ pc = "failed"
    /\ physicalDevice = 0
    /\ "instance" \in live
    /\ config.validationEnabled => "debugReportCallback" \in live
    /\ Len(physicalDevices) = 3
    /\ config.deviceId = 1
    /\ Cardinality(ValidIndices) = 1

\* C19: the selected device passes both filters and is the one with exactly
\* deviceId valid candidates enumerated before it, so it is determined by the
\* enumeration and the configuration; once made, the selection does not change.
C19_SelectsOrdinalAmongValid ==
    /\ [](physicalDevice # 0 =>
              /\ physicalDevice \in ValidIndices
              /\ Cardinality({j \in ValidIndices : j < physicalDevice}) = config.deviceId)
    /\ [][physicalDevice # 0 => physicalDevice' = physicalDevice]_vars

C19_Witness ==
    /\ pc = "alive"
    /\ physicalDevices = <<HeadlessGpu, NoPresentQueue, DiscreteNvidia>>
    /\ config.headless
    /\ config.deviceId = 1
    /\ physicalDevice = 3

\* C20: the thermal bucket of a temperature t in degrees Celsius is 3 for
\* t >= 95, 2 for 85 <= t < 95, 1 for 75 <= t < 85 and 0 below 75; the
\* boundary temperatures 75, 85 and 95 fall in the higher bucket; and a hotter
\* temperature never gets a lower bucket.
C20_ThermalBucketTable ==
    (helperArgs.fn = "ThermalBucketFromCelsius" /\ helperResult # <<>>) =>
        LET t == helperArgs.first
            bucket == helperResult[1]
        IN  /\ t >= 95 => bucket = 3
            /\ (85 <= t /\ t < 95) => bucket = 2
            /\ (75 <= t /\ t < 85) => bucket = 1
            /\ t < 75 => bucket = 0
            /\ t = 75 => bucket = 1
            /\ t = 85 => bucket = 2
            /\ t = 95 => bucket = 3
            /\ t <= helperArgs.second => bucket <= helperResult[2]

\* Two boundary temperatures classified, each into the higher bucket.
C20_Witness ==
    /\ helperArgs.fn = "ThermalBucketFromCelsius"
    /\ helperArgs.first = 85
    /\ helperArgs.second = 95
    /\ helperResult = <<2, 3>>

\* C21: a performance state p is classified low-power exactly when p >= 8,
\* for every p: 7 is not low-power and 8 is.
C21_LowPowerFromPState ==
    (helperArgs.fn = "IsLowPowerFromPState" /\ helperResult # <<>>) =>
        /\ helperResult[1] = (helperArgs.pState >= 8)
        /\ helperArgs.pState = 7 => helperResult[1] = FALSE
        /\ helperArgs.pState = 8 => helperResult[1] = TRUE

\* The boundary state 8 classified low-power.
C21_Witness ==
    /\ helperArgs.fn = "IsLowPowerFromPState"
    /\ helperArgs.pState = 8
    /\ helperResult = <<TRUE>>

\* C22: for every pair of unsigned word inputs the power-budget rule answers
\* false when the budget is 0 and otherwise true exactly when the mathematical
\* integer quotient floor(current * 100 / budget) is below the threshold, with
\* no wrap-around or truncation; a ratio of exactly the threshold is not
\* low-power.
C22_LowPowerFromPowerBudget ==
    (helperArgs.fn = "IsLowPowerFromPowerBudget" /\ helperResult # <<>>) =>
        LET current == helperArgs.currentMilliwatts
            budget == helperArgs.budgetMilliwatts
            threshold == helperArgs.utilizationThresholdPercent
        IN  /\ budget = 0 => helperResult[1] = FALSE
            /\ budget # 0 =>
                   helperResult[1] = ((current * 100) \div budget < threshold)
            /\ (budget # 0 /\ current * 100 = threshold * budget) =>
                   helperResult[1] = FALSE

\* The constructor has filled the capability flags of the selected device.
CachePopulated ==
    /\ physicalDevice # 0
    /\ pc \notin {"deviceExtensions", "cache"}

\* C23: after successful construction canImportDeviceMemory and
\* canExportDeviceMemory are both true exactly when the selected device
\* supports the external-memory-fd capability, canImportHostMemory is true
\* exactly when it supports the external-memory-host capability, and the
\* flags never change afterwards (here: from the moment they are filled,
\* through polling and teardown).
C23_CapabilityFlags ==
    /\ [](CachePopulated =>
              LET supported == physicalDevices[physicalDevice].extensions
              IN  /\ cache.canImportDeviceMemory = ("VK_KHR_external_memory_fd" \in supported)
                  /\ cache.canExportDeviceMemory = ("VK_KHR_external_memory_fd" \in supported)
                  /\ cache.canImportHostMemory = ("VK_EXT_external_memory_host" \in supported))
    /\ [][CachePopulated =>
              /\ cache'.canImportDeviceMemory = cache.canImportDeviceMemory
              /\ cache'.canExportDeviceMemory = cache.canExportDeviceMemory
              /\ cache'.canImportHostMemory = cache.canImportHostMemory]_vars

\* A live handle on a device that imports host memory and no device memory,
\* after a poll has written the snapshot.
C23_Witness ==
    /\ pc = "alive"
    /\ physicalDevices[physicalDevice] = OtherGpu
    /\ cache.canImportHostMemory
    /\ ~cache.canImportDeviceMemory
    /\ ~cache.canExportDeviceMemory
    /\ \E t \in DOMAIN thread : thread[t] = "sleeping"

\* The largest sample count both framebuffer limits of a device offer.
HardwareMaxSamples(device) ==
    LET counts == (device.framebufferColorSampleCounts
                   \cap device.framebufferDepthSampleCounts) \cup {1}
    IN  CHOOSE m \in counts : \A n \in counts : n <= m

\* C24: after successful construction config.multisampling is the smaller of
\* the requested level and the hardware maximum sample count: a request above
\* the maximum is lowered to the maximum, a request at or below it is kept.
C24_MultisamplingClamped ==
    pc = "alive" =>
        LET requested == callerConfig.multisampling
            maximum == HardwareMaxSamples(physicalDevices[physicalDevice])
        IN  /\ requested > maximum => config.multisampling = maximum
            /\ requested <= maximum => config.multisampling = requested

\* A request of 16 lowered to the 4 samples both limits of the device offer.
C24_Witness ==
    /\ pc = "alive"
    /\ physicalDevices[physicalDevice] = OtherGpu
    /\ callerConfig.multisampling = 16
    /\ config.multisampling = 4

\* A request of 4 kept on a device that offers 8.
C24_WitnessKept ==
    /\ pc = "alive"
    /\ physicalDevices[physicalDevice] = DiscreteNvidia
    /\ callerConfig.multisampling = 4
    /\ config.multisampling = 4

\* C25: the backend's copy of the configuration changes only in
\* validationEnabled (true to false) and in multisampling (lowered): deviceId,
\* headless and stagingBufferSize keep the caller-supplied values through
\* construction, polling and teardown, validationEnabled is never turned from
\* false to true and multisampling is never raised.
C25_ConfigFrame ==
    /\ [](/\ config.deviceId = callerConfig.deviceId
          /\ config.headless = callerConfig.headless
          /\ config.stagingBufferSize = callerConfig.stagingBufferSize
          /\ config.validationEnabled => callerConfig.validationEnabled
          /\ config.multisampling <= callerConfig.multisampling)
    /\ [][/\ config'.validationEnabled => config.validationEnabled
          /\ config'.multisampling <= config.multisampling]_vars

\* A handle torn down after both downgrades and a poll by the worker.
C25_Witness ==
    /\ pc = "destroyed"
    /\ callerConfig.validationEnabled
    /\ ~config.validationEnabled
    /\ config.multisampling < callerConfig.multisampling
    /\ \E t \in DOMAIN thread : thread[t] = "joined"

\* C26: in every reachable state of either backend, under every provider and
\* every sequence of successful and failed polls, the published thermal
\* bucket is one of 0, 1, 2, 3.
C26_ThermalBucketInRange ==
    /\ cache.getThermalState \in {0, 1, 2, 3}
    /\ wcache.getThermalState \in {0, 1, 2, 3}

\* The hottest bucket still published by the vendor-library provider after
\* a later temperature query failed.
C26_Witness ==
    /\ pc = "alive"
    /\ cache.telemetryProviderType = "NVML"
    /\ cache.getThermalState = 3
    /\ warnings["nvml_temperature"] > 0

\* The hottest bucket still published by the browser provider after a later
\* thermal hint was not exposed.
BrowserKeepsHottestBucket ==
    /\ wpc = "alive"
    /\ wcache.getThermalState = 3
    /\ wwarnings.thermal > 0

\* A step taken by the telemetry worker thread: its position moves along
\* its loop (the owning thread only creates and joins it).
WorkerStep ==
    \E t \in DOMAIN thread :
        <<thread[t], thread'[t]>> \in
            {<<"check", "ready">>, <<"check", "exited">>, <<"ready", "polling">>,
             <<"polling", "sleeping">>, <<"sleeping", "check">>}

\* What a step leaves of the handle apart from the two dynamic snapshot
\* fields and the scheduler's record.
RestOfHandleUnchanged ==
    /\ [cache' EXCEPT !.lowPowerStatus = FALSE, !.getThermalState = 0]
           = [cache EXCEPT !.lowPowerStatus = FALSE, !.getThermalState = 0]
    /\ UNCHANGED <<config, supportedInstanceExtensions, supportedDeviceExtensions,
                   physicalDevice, isAvailable, live, acquired, released, nvml,
                   pc, teardown>>

\* C27 as stated: lowPowerStatus and thermalBucket are the only handle state
\* the telemetry worker writes; it writes no other variable of the handle.
C27_WorkerWritesOnlySnapshot ==
    [][WorkerStep => (RestOfHandleUnchanged /\ telemetryRuntime' = telemetryRuntime)]_vars

\* C27 amended: the telemetry worker writes lowPowerStatus, thermalBucket and
\* the scheduler's warn-once flag providerErrorLogged, and no other variable
\* of the handle.
C27_WorkerWritesSnapshotAndErrorFlag ==
    [][WorkerStep =>
           /\ RestOfHandleUnchanged
           /\ telemetryRuntime'.running = telemetryRuntime.running
           /\ telemetryRuntime'.worker = telemetryRuntime.worker]_vars

\* The worker has finished a poll that published both fields and logged a
\* failed query.
C27_Witness ==
    /\ pc = "alive"
    /\ \E t \in DOMAIN thread : thread[t] = "sleeping"
    /\ cache.lowPowerStatus
    /\ cache.getThermalState = 2
    /\ telemetryRuntime.providerErrorLogged

\* What one refresh of the browser hints can leave in the handle.
RefreshOutcomes ==
    {refreshTelemetry([cache |-> wcache, logged |-> warningLogged, warnings |-> wwarnings],
                      lowPowerHint, thermalBucket) :
         lowPowerHint \in LowPowerHints, thermalBucket \in ThermalHints}

\* C28: in the cooperative model at most one telemetry callback is pending
\* at any time; construction schedules exactly one; a fired callback that
\* finds telemetryActive true performs exactly one refresh and schedules
\* exactly one successor, and one that finds it false performs no refresh
\* and schedules nothing, which ends the chain.
C28_OneCallbackChain ==
    /\ [](pending <= 1)
    /\ [][(wpc = "unbuilt" /\ wpc' = "alive") => (pending = 0 /\ pending' = 1)]_vars
    /\ [][(wpc # "unbuilt" /\ wpc' = wpc) =>
              IF telemetryActive
              THEN /\ pending' = pending
                   /\ \E o \in RefreshOutcomes :
                          /\ wcache' = o.cache
                          /\ warningLogged' = o.logged
                          /\ wwarnings' = o.warnings
              ELSE /\ pending' = pending - 1
                   /\ UNCHANGED <<wcache, warningLogged, wwarnings>>]_vars

\* C29: once a provider is committed its type never changes until teardown:
\* every poll dispatches to that provider only, and repeated query failures
\* never cause a switch to another provider or to none.
C29_NoFallbackAfterCommit ==
    /\ [][cache.telemetryProviderType # "NONE" =>
              cache'.telemetryProviderType = cache.telemetryProviderType]_vars
    /\ []((\E t \in DOMAIN thread : thread[t] = "polling") =>
              LET st == PollState(cache, telemetryRuntime, warnings)
              IN  /\ cache.telemetryProviderType = "NVML" =>
                         PollOutcomes =
                             {updateTelemetryFromNvml(cache, st, r) : r \in NvmlReadings}
                  /\ cache.telemetryProviderType = "TOOLING_INFO" =>
                         PollOutcomes =
                             {updateTelemetryFromToolingInfo(cache, st, r) :
                                  r \in ToolingReadings})

\* The vendor-library provider still committed while the handle is torn down,
\* after polls with failed queries.
C29_Witness ==
    /\ pc = "dtor_release"
    /\ cache.telemetryProviderType = "NVML"
    /\ telemetryRuntime.providerErrorLogged
    /\ warnings["nvml_temperature"] + warnings["nvml_power_state"]
           + warnings["nvml_power_budget"] > 1

\* stopTelemetryPolling() is waiting in join().
StopIsJoining == pc \in {"stop_join", "dtor_join"}

\* C30: in the native model, under fair scheduling of the worker and with
\* every poll and every sleep terminating, every stopTelemetryPolling()
\* eventually returns: once running is false the worker's next look at the
\* flag ends its loop, so it performs at most the one poll-and-sleep already
\* under way, exits, and the join completes.
C30_StopEventuallyReturns ==
    /\ [][(StopIsJoining /\ thread[telemetryRuntime.worker] = "check") =>
              thread'[telemetryRuntime.worker] \in {"check", "exited"}]_vars
    /\ (pc = "stop_join") ~> (pc = "alive" /\ telemetryRuntime.worker = 0)
    /\ (pc = "dtor_join") ~> (pc = "dtor_nvml" /\ telemetryRuntime.worker = 0)

\* A stop() that had to join the worker has returned.
C30_Witness ==
    /\ pc = "alive"
    /\ ~telemetryRuntime.running
    /\ telemetryRuntime.worker = 0
    /\ calls # <<>>
    /\ calls[Len(calls)] = "stop"
    /\ \E t \in DOMAIN thread : thread[t] = "joined"

\* C31: over every path through construction and teardown, a failed device
\* bind and a construction that aborts after telemetry was initialized
\* included, each successful initialization of the vendor library is followed
\* by exactly one shutdown, and the library is never shut down twice or
\* without a preceding successful initialization.
C31_NvmlInitShutdownPaired ==
    /\ nvml.shutdowns <= nvml.inits
    /\ nvml.inits <= nvml.shutdowns + 1
    /\ pc \in {"failed", "destroyed"} => nvml.shutdowns = nvml.inits

\* The pairing on the paths that do not abort construction after the commit.
NvmlPairedUnlessAborted ==
    /\ nvml.shutdowns <= nvml.inits
    /\ nvml.inits <= nvml.shutdowns + 1
    /\ pc = "destroyed" => nvml.shutdowns = nvml.inits
    /\ (pc = "failed" /\ cache.telemetryProviderType # "NVML") =>
           nvml.shutdowns = nvml.inits

\* C32: in a poll of the vendor library in which the power-state, power-usage
\* and power-limit queries all succeed, lowPowerStatus after the poll is the
\* power-budget classification of usage and limit whatever the power state;
\* the power-state classification decides the value after the poll only when
\* the power-budget queries fail.
C32_PowerBudgetOverridesPowerState ==
    ((\E t \in DOMAIN thread : thread[t] = "polling")
     /\ cache.telemetryProviderType = "NVML") =>
        \A r \in NvmlReadings :
            LET after == pollTelemetry(cache, PollState(cache, telemetryRuntime, warnings), r)
            IN  /\ (r.usageOk /\ r.budgetOk) =>
                       after.lowPowerStatus =
                           IsLowPowerFromPowerBudget(r.power[1], r.power[2], 30)
                /\ (~(r.usageOk /\ r.budgetOk) /\ r.powerStateOk) =>
                       after.lowPowerStatus = (r.powerState >= 8)
                /\ (~(r.usageOk /\ r.budgetOk) /\ ~r.powerStateOk) =>
                       after.lowPowerStatus = cache.lowPowerStatus

\* The worker is inside a poll of the vendor library whose queries can all
\* succeed with a low-power state and a power draw that is not low.
C32_Witness ==
    /\ \E t \in DOMAIN thread : thread[t] = "polling"
    /\ cache.telemetryProviderType = "NVML"
    /\ cache.telemetryHandle # "null"
    /\ \E r \in NvmlReadings :
           /\ r.powerStateOk /\ r.usageOk /\ r.budgetOk
           /\ r.powerState = 8
           /\ r.power = <<40000, 60000>>
           /\ ~pollTelemetry(cache, PollState(cache, telemetryRuntime, warnings), r).lowPowerStatus

\* The tools of a reading that have the monitoring purpose.
MonitoringTools(r) == {i \in DOMAIN r.tools : "MONITORING" \in r.tools[i]}

\* The dynamic fields agree the way a successful tooling-info poll leaves them.
ToolingFieldsAgree == cache.lowPowerStatus = (cache.getThermalState = 0)

\* C33: after every successful poll of the tooling-info provider lowPowerStatus
\* is true exactly when no enumerated tool has the monitoring purpose and the
\* thermal bucket is 1 if such a tool is present and 0 otherwise; under this
\* provider the thermal bucket is always 0 or 1, and after a successful poll
\* lowPowerStatus = (thermal bucket = 0).
C33_ToolingInfoPoll ==
    /\ [](cache.telemetryProviderType = "TOOLING_INFO" => cache.getThermalState \in {0, 1})
    /\ []((/\ \E t \in DOMAIN thread : thread[t] = "polling"
           /\ cache.telemetryProviderType = "TOOLING_INFO") =>
              \A r \in ToolingReadings :
                  (r.countOk /\ r.toolsOk) =>
                      LET after == pollTelemetry(cache,
                                       PollState(cache, telemetryRuntime, warnings), r)
                      IN  /\ after.lowPowerStatus = (MonitoringTools(r) = {})
                          /\ after.getThermalState = IF MonitoringTools(r) = {} THEN 0 ELSE 1
                          /\ after.lowPowerStatus = (after.getThermalState = 0))
    /\ [][(cache.telemetryProviderType = "TOOLING_INFO" /\ ToolingFieldsAgree) =>
              ToolingFieldsAgree']_vars

\* A successful poll has found a monitoring tool, and a later poll failed.
C33_Witness ==
    /\ pc = "alive"
    /\ cache.telemetryProviderType = "TOOLING_INFO"
    /\ cache.getThermalState = 1
    /\ ~cache.lowPowerStatus
    /\ warnings["tooling_properties"] > 0
    /\ \E t \in DOMAIN thread : thread[t] = "sleeping"

\* How many times an object occurs in a log of acquisitions or releases.
Occurrences(log, object) == Cardinality({i \in DOMAIN log : log[i] = object})

\* Where an object that occurs in a log occurs first.
FirstAt(log, object) ==
    CHOOSE i \in DOMAIN log : log[i] = object /\ \A j \in 1 .. i - 1 : log[j] # object

\* The constructor is past the setup of the debug callback.
DebugReportSetUp ==
    pc \notin {"instanceExtensions", "validationLayers", "createInstance",
               "debugReport", "failed"}

\* C34: the debug-callback registration is tied 1:1 to the handle: it is
\* created during construction exactly when validationEnabled is still true
\* after the validation downgrade, and during teardown it is destroyed exactly
\* once exactly when it was created, after the descriptor pool is destroyed
\* and before the instance is destroyed.
C34_DebugCallbackOwned ==
    /\ Occurrences(acquired, "debugReportCallback") <= 1
    /\ Occurrences(released, "debugReportCallback")
           <= Occurrences(acquired, "debugReportCallback")
    /\ DebugReportSetUp =>
           (Occurrences(acquired, "debugReportCallback") = 1) = config.validationEnabled
    /\ pc = "destroyed" =>
           /\ Occurrences(released, "debugReportCallback")
                  = Occurrences(acquired, "debugReportCallback")
           /\ Occurrences(released, "debugReportCallback") = 1 =>
                  /\ FirstAt(released, "descriptorPool")
                         < FirstAt(released, "debugReportCallback")
                  /\ FirstAt(released, "debugReportCallback")
                         < FirstAt(released, "instance")

\* A handle built with validation on and torn down: the callback was created
\* and destroyed once, between the descriptor pool and the instance.
C34_Witness ==
    /\ pc = "destroyed"
    /\ config.validationEnabled
    /\ Occurrences(acquired, "debugReportCallback") = 1
    /\ Occurrences(released, "debugReportCallback") = 1

\* A handle whose validation was downgraded and torn down: no callback was
\* created and none destroyed.
DowngradedHandleHasNoCallback ==
    /\ pc = "destroyed"
    /\ callerConfig.validationEnabled
    /\ ~config.validationEnabled
    /\ Occurrences(acquired, "debugReportCallback") = 0
    /\ Occurrences(released, "debugReportCallback") = 0

============================================================================
